---- MODULE Spec2Model ----
(***************************************************************************)
(* Model of configuration.py: the Configuration facade, the abstract       *)
(* ConfigurationProvider (dot-path get/set on a nested dict) and the       *)
(* ConfigurationProviderFile backend (JSON file load / save).              *)
(*                                                                         *)
(* A key is a string, modelled as a sequence of characters so that         *)
(* key.split(".") is computed.  A Python value is a tagged record; a JSON  *)
(* document is a separate structure (members in written order) so that     *)
(* json.dump / json.load are conversions.  Values handed to set_val are    *)
(* treated as values: the caller keeps no reference into the tree.         *)
(***************************************************************************)
EXTENDS Integers, Sequences, FiniteSets, TLC

VARIABLES fs, config_source, provider, last, ops, edits

vars == <<fs, config_source, provider, last, ops, edits>>

(* ---------------------------- bounds ----------------------------------- *)
MaxKeyLen == 2
MaxOps == 2
MaxEdits == 1

(* ---------------------------- strings ---------------------------------- *)
Dot == "."
Alphabet == {"a", Dot}

\* every key string of at most MaxKeyLen characters
KeyStrings == UNION {[1..n -> Alphabet] : n \in 0..MaxKeyLen}

EmptyKey == << >>

\* position of the first "." in s, 0 when there is none
RECURSIVE FirstDot(_, _)
FirstDot(s, i) ==
    IF i > Len(s) THEN 0
    ELSE IF s[i] = Dot THEN i
    ELSE FirstDot(s, i + 1)

\* key.split("."): "" gives [""], "a." gives ["a", ""]
RECURSIVE Split(_)
Split(s) ==
    LET i == FirstDot(s, 1) IN
    IF i = 0 THEN << s >>
    ELSE << SubSeq(s, 1, i - 1) >> \o Split(SubSeq(s, i + 1, Len(s)))

\* character order of Python string comparison: "." (46) sorts before "a" (97)
CharRank(c) == IF c = Dot THEN 1 ELSE 2

\* s < t for Python strings
RECURSIVE StrLess(_, _)
StrLess(s, t) ==
    IF Len(t) = 0 THEN FALSE
    ELSE IF Len(s) = 0 THEN TRUE
    ELSE IF CharRank(s[1]) # CharRank(t[1]) THEN CharRank(s[1]) < CharRank(t[1])
    ELSE StrLess(Tail(s), Tail(t))

(* ---------------------------- Python values ---------------------------- *)
NoneVal == [kind |-> "none"]
FalseVal == [kind |-> "bool", val |-> FALSE]
Str(s) == [kind |-> "str", val |-> s]
\* a Python object json cannot encode (a set, a datetime, ...)
Unserializable == [kind |-> "object"]
Dict(f) == [kind |-> "dict", val |-> f]
EmptyDict == Dict([k \in {} |-> NoneVal])

IsDict(v) == v.kind = "dict"

\* outcome of a call: a returned value or a raised exception
Ok(v) == [exc |-> "none", val |-> v]
Raise(e) == [exc |-> e, val |-> NoneVal]
Raised(r) == r.exc # "none"

(* ---------------------------- path walk -------------------------------- *)
\* d[k] of the lambda in get_val and of the loop in _search_and_replace
Subscript(d, k) ==
    IF IsDict(d)
    THEN IF k \in DOMAIN d.val THEN Ok(d.val[k]) ELSE Raise("KeyError")
    ELSE Raise("TypeError")

\* reduce(lambda d, k: d[k], ks, d)
RECURSIVE Reduce(_, _)
Reduce(d, ks) ==
    IF Len(ks) = 0 THEN Ok(d)
    ELSE LET r == Subscript(d, Head(ks)) IN
         IF Raised(r) THEN r ELSE Reduce(r.val, Tail(ks))

\* get_val without its try/except
get_val_unguarded(configuration, key) ==
    IF key = EmptyKey THEN Ok(configuration)
    ELSE Reduce(configuration, Split(key))

\* get_val without the test for the empty key
get_val_no_sentinel(configuration, key) ==
    LET r == Reduce(configuration, Split(key)) IN
    IF Raised(r) THEN Ok(NoneVal) ELSE r

\* get_val that answers a miss with False
get_val_miss_false(configuration, key) ==
    IF key = EmptyKey THEN Ok(configuration)
    ELSE LET r == Reduce(configuration, Split(key)) IN
         IF Raised(r) THEN Ok(FalseVal) ELSE r

\* ConfigurationProvider.get_val
get_val(configuration, key) ==
    IF key = EmptyKey THEN Ok(configuration)
    ELSE LET r == Reduce(configuration, Split(key)) IN
         IF Raised(r) THEN Ok(NoneVal) ELSE r

\* temp_dict[key] = v on a dict (as a function)
Assign(m, key, v) == [x \in (DOMAIN m) \cup {key} |-> IF x = key THEN v ELSE m[x]]

\* the loop without the isinstance branch: a scalar met on the way stays and
\* the assignment below it is lost
RECURSIVE Put_keep_scalar(_, _, _)
Put_keep_scalar(m, ks, v) ==
    LET key == Head(ks) IN
    IF Len(ks) = 1 THEN Assign(m, key, v)
    ELSE IF key \in DOMAIN m /\ ~IsDict(m[key]) THEN m
    ELSE LET val == IF key \in DOMAIN m THEN m[key] ELSE EmptyDict
         IN  Assign(m, key, Dict(Put_keep_scalar(val.val, Tail(ks), v)))

\* the loop of _search_and_replace below the root, which is a dict here
RECURSIVE Put(_, _, _)
Put(m, ks, v) ==
    LET key == Head(ks) IN
    IF Len(ks) = 1 THEN Assign(m, key, v)
    ELSE LET val == IF key \in DOMAIN m /\ IsDict(m[key]) THEN m[key] ELSE EmptyDict
         IN  Assign(m, key, Dict(Put(val.val, Tail(ks), v)))

\* ConfigurationProvider._search_and_replace: the dict d after the call, or the
\* TypeError of subscripting a root that is no dict
search_and_replace(d, k, v) ==
    IF IsDict(d) THEN Ok(Dict(Put(d.val, Split(k), v))) ELSE Raise("TypeError")

(* ---------------------------- JSON documents --------------------------- *)
JNull == [kind |-> "null"]
JString(s) == [kind |-> "string", val |-> s]
\* members: the sequence of <<key, document>> pairs in written order
JObject(members) == [kind |-> "object", members |-> members]

\* sorted(dct.items()) of json.dump(sort_keys=True)
RECURSIVE SortKeys(_)
SortKeys(S) ==
    IF S = {} THEN << >>
    ELSE LET m == CHOOSE x \in S : \A y \in S \ {x} : StrLess(x, y)
         IN  << m >> \o SortKeys(S \ {m})

\* json.dump(v, sort_keys=True): the document, or TypeError
RECURSIVE Dump(_)
Dump(v) ==
    CASE v.kind = "none" -> Ok(JNull)
      [] v.kind = "str" -> Ok(JString(v.val))
      [] v.kind = "dict" ->
            LET ks == SortKeys(DOMAIN v.val)
                parts == [i \in 1..Len(ks) |-> Dump(v.val[ks[i]])]
            IN  IF \E i \in 1..Len(ks) : Raised(parts[i])
                THEN Raise("TypeError")
                ELSE Ok(JObject([i \in 1..Len(ks) |-> << ks[i], parts[i].val >>]))
      [] OTHER -> Raise("TypeError")

\* index of the last member named k: json.load keeps the last duplicate
LastIndex(members, k) ==
    CHOOSE i \in DOMAIN members :
        /\ members[i][1] = k
        /\ \A j \in DOMAIN members : members[j][1] = k => j <= i

\* json.load of a well-formed document
RECURSIVE Load(_)
Load(t) ==
    CASE t.kind = "null" -> NoneVal
      [] t.kind = "string" -> Str(t.val)
      [] t.kind = "object" ->
            Dict([k \in {t.members[i][1] : i \in DOMAIN t.members} |->
                     Load(t.members[LastIndex(t.members, k)][2])])

(* ---------------------------- file system ------------------------------ *)
Files == {"f1", "f2"}

Missing == [kind |-> "missing"]
\* a file whose content is no JSON document (also a truncated write)
Garbage == [kind |-> "garbage"]
Text(t) == [kind |-> "text", doc |-> t]

\* open(settings["source"], "r") and json.load
ReadJson(disk, settings) ==
    IF "source" \notin DOMAIN settings THEN Raise("KeyError")
    ELSE LET c == disk[settings.source] IN
         CASE c.kind = "missing" -> Raise("IOError")
           [] c.kind = "garbage" -> Raise("ValueError")
           [] c.kind = "text" -> Ok(Load(c.doc))

\* open(settings["source"], "w+") and json.dump(v): the disk afterwards; the
\* file is truncated before the first chunk is written
WriteJson(disk, settings, v) ==
    LET d == Dump(v) IN
    IF Raised(d)
    THEN [exc |-> d.exc, disk |-> [disk EXCEPT ![settings.source] = Garbage]]
    ELSE [exc |-> "none", disk |-> [disk EXCEPT ![settings.source] = Text(d.val)]]

\* ConfigurationProviderFile.import_config
File_import_config(disk, p) ==
    LET r == ReadJson(disk, p.config_settings) IN
    IF Raised(r)
    THEN [ret |-> FalseVal, provider |-> p]
    ELSE [ret |-> NoneVal, provider |-> [p EXCEPT !.configuration = r.val]]

\* save_value that writes the document back without applying the key
File_save_value_unapplied(disk, p, key, value) ==
    LET r == ReadJson(disk, p.config_settings) IN
    IF Raised(r) THEN [exc |-> r.exc, disk |-> disk]
    ELSE LET t == search_and_replace(r.val, key, value) IN
         IF Raised(t) THEN [exc |-> t.exc, disk |-> disk]
         ELSE WriteJson(disk, p.config_settings, r.val)

\* save_value that writes a document holding the one value only
File_save_value_alone(disk, p, key, value) ==
    LET r == ReadJson(disk, p.config_settings) IN
    IF Raised(r) THEN [exc |-> r.exc, disk |-> disk]
    ELSE LET t == search_and_replace(r.val, key, value) IN
         IF Raised(t) THEN [exc |-> t.exc, disk |-> disk]
         ELSE WriteJson(disk, p.config_settings,
                        search_and_replace(EmptyDict, key, value).val)

\* save_value that writes the in-memory tree instead of the re-read document
File_save_value_from_memory(disk, p, key, value) ==
    LET r == ReadJson(disk, p.config_settings) IN
    IF Raised(r) THEN [exc |-> r.exc, disk |-> disk]
    ELSE LET t == search_and_replace(r.val, key, value) IN
         IF Raised(t) THEN [exc |-> t.exc, disk |-> disk]
         ELSE WriteJson(disk, p.config_settings, p.configuration)

\* ConfigurationProviderFile.save_value
File_save_value(disk, p, key, value) ==
    LET r == ReadJson(disk, p.config_settings) IN
    IF Raised(r) THEN [exc |-> r.exc, disk |-> disk]
    ELSE LET t == search_and_replace(r.val, key, value) IN
         IF Raised(t) THEN [exc |-> t.exc, disk |-> disk]
         ELSE WriteJson(disk, p.config_settings, t.val)

\* save_all that updates the document found in the file instead of replacing it
File_save_all_merge(disk, p) ==
    LET r == ReadJson(disk, p.config_settings) IN
    IF ~Raised(r) /\ IsDict(r.val) /\ IsDict(p.configuration)
    THEN WriteJson(disk, p.config_settings,
             Dict([k \in (DOMAIN r.val.val) \cup (DOMAIN p.configuration.val) |->
                      IF k \in DOMAIN p.configuration.val
                      THEN p.configuration.val[k] ELSE r.val.val[k]]))
    ELSE WriteJson(disk, p.config_settings, p.configuration)

\* ConfigurationProviderFile.save_all
File_save_all(disk, p) == WriteJson(disk, p.config_settings, p.configuration)

(* ---------------------------- providers -------------------------------- *)
\* the attribute self.configuration before import_config has assigned it
Unset == [kind |-> "unset"]

\* Configuration.get_class: the class named "ConfigurationProvider" + type
get_class(source) ==
    IF "type" \notin DOMAIN source THEN Raise("KeyError")
    ELSE IF source.type \in {"", "File", "Consul"} THEN Ok(source.type)
    ELSE Raise("AttributeError")

\* __init__ without the test of import_config's result: the object is kept
\* although nothing was loaded
new_provider_unchecked(cls, settings, disk) ==
    IF cls = "File"
    THEN LET p0 == [cls |-> cls, config_settings |-> settings, configuration |-> Unset]
         IN  Ok(File_import_config(disk, p0).provider)
    ELSE Raise("NotImplementedError")

\* ConfigurationProvider.__init__ reached through the subclass cls: the new
\* provider object, or the exception that leaves no object
new_provider(cls, settings, disk) ==
    IF cls = "File"
    THEN LET p0 == [cls |-> cls, config_settings |-> settings, configuration |-> Unset]
             r == File_import_config(disk, p0)
         IN  IF r.ret = FalseVal
             THEN IF "source" \in DOMAIN settings THEN Raise("IOError") ELSE Raise("KeyError")
             ELSE Ok(r.provider)
    ELSE Raise("NotImplementedError")

\* ConfigurationProvider.set_val on provider p: the in-memory update, then
\* save_value, then the read back
set_val(disk, p, key, value) ==
    LET t == search_and_replace(p.configuration, key, value) IN
    IF Raised(t) THEN [exc |-> t.exc, ret |-> NoneVal, provider |-> p, disk |-> disk]
    ELSE LET p1 == [p EXCEPT !.configuration = t.val]
             s == File_save_value(disk, p1, key, value)
         IN  IF s.exc # "none"
             THEN [exc |-> s.exc, ret |-> NoneVal, provider |-> p1, disk |-> s.disk]
             ELSE [exc |-> "none", ret |-> get_val(p1.configuration, key).val,
                   provider |-> p1, disk |-> s.disk]

\* switch_provider that never copies the application configuration over
switch_provider_adopts(disk, p, source, overwrite) ==
    LET c == get_class(source) IN
    IF Raised(c) THEN [exc |-> c.exc, provider |-> p, config_source |-> source]
    ELSE LET n == new_provider(c.val, source.settings, disk) IN
         IF Raised(n) THEN [exc |-> n.exc, provider |-> p, config_source |-> source]
         ELSE [exc |-> "none", provider |-> n.val, config_source |-> source]

\* switch_provider that always copies the application configuration over
switch_provider_keeps(disk, p, source, overwrite) ==
    LET c == get_class(source) IN
    IF Raised(c) THEN [exc |-> c.exc, provider |-> p, config_source |-> source]
    ELSE LET n == new_provider(c.val, source.settings, disk) IN
         IF Raised(n) THEN [exc |-> n.exc, provider |-> p, config_source |-> source]
         ELSE [exc |-> "none",
               provider |-> [n.val EXCEPT !.configuration = p.configuration],
               config_source |-> source]

\* switch_provider that rebinds the provider to the new settings before the load
switch_provider_rebinds_first(disk, p, source, overwrite) ==
    LET c == get_class(source) IN
    IF Raised(c) THEN [exc |-> c.exc, provider |-> p, config_source |-> source]
    ELSE LET n == new_provider(c.val, source.settings, disk) IN
         IF Raised(n)
         THEN [exc |-> n.exc,
               provider |-> [p EXCEPT !.config_settings = source.settings],
               config_source |-> source]
         ELSE [exc |-> "none",
               provider |-> IF ~overwrite
                            THEN [n.val EXCEPT !.configuration = p.configuration]
                            ELSE n.val,
               config_source |-> source]

\* Configuration.switch_provider: self.config_source is assigned first
switch_provider(disk, p, source, overwrite) ==
    LET c == get_class(source) IN
    IF Raised(c) THEN [exc |-> c.exc, provider |-> p, config_source |-> source]
    ELSE LET n == new_provider(c.val, source.settings, disk) IN
         IF Raised(n) THEN [exc |-> n.exc, provider |-> p, config_source |-> source]
         ELSE [exc |-> "none",
               provider |-> IF ~overwrite
                            THEN [n.val EXCEPT !.configuration = p.configuration]
                            ELSE n.val,
               config_source |-> source]

(* ---------------------------- inputs ----------------------------------- *)
A == << "a" >>

FileSettings(f) == [source |-> f]
UrlSettings == [url |-> "localhost"]
\* settings: {}
EmptySettings == [k \in {} |-> ""]

Descriptors ==
    {[type |-> "File", settings |-> FileSettings(f)] : f \in Files}
    \cup {[type |-> "Consul", settings |-> UrlSettings],
          [type |-> "Redis", settings |-> UrlSettings],
          [type |-> "", settings |-> FileSettings("f1")],
          [type |-> "File", settings |-> EmptySettings],
          [settings |-> FileSettings("f1")]}

\* documents found in, or written by other programs to, a backing file
DocTexts ==
    {JString("x"),
     JObject(<< >>),
     JObject(<< << A, JString("x") >> >>),
     JObject(<< << A, JObject(<< << EmptyKey, JNull >> >>) >>, << A, JString("y") >> >>)}

Contents == {Missing, Garbage} \cup {Text(t) : t \in DocTexts}

\* what the backing files hold before the program starts
InitContents ==
    {Missing, Text(JString("x")), Text(JObject(<< >>)),
     Text(JObject(<< << A, JString("x") >> >>))}

SetValues == {Str("x"), NoneVal, Unserializable, Dict([k \in {A} |-> Str("y")])}

(* ---------------------------- state ------------------------------------ *)
NoProvider == [kind |-> "absent"]
NoSource == [kind |-> "absent"]

Constructed == provider # NoProvider

Pre == [provider |-> provider, fs |-> fs, config_source |-> config_source]

\* the record of the last call: its arguments, its outcome and the state before
Call(op, key, value, desc, overwrite, exc, ret) ==
    [op |-> op, key |-> key, value |-> value, desc |-> desc, overwrite |-> overwrite,
     exc |-> exc, ret |-> ret, pre |-> Pre]

Init ==
    /\ fs \in [Files -> InitContents]
    /\ config_source = NoSource
    /\ provider = NoProvider
    /\ last = Call("none", EmptyKey, NoneVal, NoSource, FALSE, "none", NoneVal)
    /\ ops = 0
    /\ edits = 0

\* Configuration.__init__
Construct(desc) ==
    /\ ~Constructed
    /\ LET c == IF "type" \notin DOMAIN desc THEN Raise("KeyError")
                ELSE IF desc.type = "" THEN Raise("ValueError")
                ELSE get_class(desc)
           n == IF Raised(c) THEN c ELSE new_provider(c.val, desc.settings, fs)
       IN  /\ provider' = IF Raised(n) THEN NoProvider ELSE n.val
           /\ config_source' = IF Raised(n) THEN NoSource ELSE desc
           \* adapters: the provider objects whose __init__ was entered
           /\ last' = Call("construct", EmptyKey, NoneVal, desc, FALSE, n.exc, NoneVal)
                          @@ [adapters |-> IF Raised(c) THEN 0 ELSE 1]
    /\ UNCHANGED <<fs, ops, edits>>

\* Configuration.get_val
Get(key) ==
    /\ Constructed
    /\ ops < MaxOps
    /\ ops' = ops + 1
    /\ LET r == get_val(provider.configuration, key) IN
       last' = Call("get", key, NoneVal, NoSource, FALSE, r.exc, r.val)
    /\ UNCHANGED <<fs, config_source, provider, edits>>

\* Configuration.set_val
Set(key, value) ==
    /\ Constructed
    /\ ops < MaxOps
    /\ ops' = ops + 1
    /\ LET r == set_val(fs, provider, key, value) IN
       /\ provider' = r.provider
       /\ fs' = r.disk
       /\ last' = Call("set", key, value, NoSource, FALSE, r.exc, r.ret)
    /\ UNCHANGED <<config_source, edits>>

\* Configuration.save: calls self._provider.save(), which no provider defines
Save ==
    /\ Constructed
    /\ ops < MaxOps
    /\ ops' = ops + 1
    /\ last' = Call("save", EmptyKey, NoneVal, NoSource, FALSE, "AttributeError", NoneVal)
    /\ UNCHANGED <<fs, config_source, provider, edits>>

\* Configuration.import_config
ImportConfig ==
    /\ Constructed
    /\ ops < MaxOps
    /\ ops' = ops + 1
    /\ LET r == File_import_config(fs, provider) IN
       /\ provider' = r.provider
       /\ last' = Call("import", EmptyKey, NoneVal, NoSource, FALSE, "none", r.ret)
    /\ UNCHANGED <<fs, config_source, edits>>

\* a switch that also saves the tree to the backend it moves to
Switch_persisting(desc, overwrite) ==
    /\ Constructed
    /\ ops < MaxOps
    /\ ops' = ops + 1
    /\ LET r == switch_provider(fs, provider, desc, overwrite) IN
       /\ provider' = r.provider
       /\ config_source' = r.config_source
       /\ fs' = IF r.exc = "none" THEN File_save_all(fs, r.provider).disk ELSE fs
       /\ last' = Call("switch", EmptyKey, NoneVal, desc, overwrite, r.exc, NoneVal)
    /\ UNCHANGED edits

\* Configuration.switch_provider
Switch(desc, overwrite) ==
    /\ Constructed
    /\ ops < MaxOps
    /\ ops' = ops + 1
    /\ LET r == switch_provider(fs, provider, desc, overwrite) IN
       /\ provider' = r.provider
       /\ config_source' = r.config_source
       /\ last' = Call("switch", EmptyKey, NoneVal, desc, overwrite, r.exc, NoneVal)
    /\ UNCHANGED <<fs, edits>>

\* another program rewrites, corrupts or removes a backing file
ExternalWrite(f, c) ==
    /\ edits < MaxEdits
    /\ edits' = edits + 1
    /\ fs[f] # c
    /\ fs' = [fs EXCEPT ![f] = c]
    /\ last' = Call("edit", EmptyKey, NoneVal, NoSource, FALSE, "none", NoneVal)
    /\ UNCHANGED <<config_source, provider, ops>>

Next ==
    \/ \E desc \in Descriptors : Construct(desc)
    \/ \E key \in KeyStrings : Get(key)
    \/ \E key \in KeyStrings, value \in SetValues : Set(key, value)
    \/ Save
    \/ ImportConfig
    \/ \E desc \in Descriptors, overwrite \in BOOLEAN : Switch(desc, overwrite)
    \/ \E f \in Files, c \in Contents : ExternalWrite(f, c)

Spec == Init /\ [][Next]_vars

(* ---------------------------- the File provider alone ------------------ *)
\* ConfigurationProviderFile(settings)
FileNew(f) ==
    /\ ~Constructed
    /\ LET n == new_provider("File", FileSettings(f), fs) IN
       /\ provider' = IF Raised(n) THEN NoProvider ELSE n.val
       /\ last' = Call("new", EmptyKey, NoneVal, NoSource, FALSE, n.exc, NoneVal)
    /\ UNCHANGED <<fs, config_source, ops, edits>>

\* ConfigurationProviderFile.set_val (inherited)
FileSetVal(key, value) ==
    /\ Constructed
    /\ ops < MaxOps
    /\ ops' = ops + 1
    /\ LET r == set_val(fs, provider, key, value) IN
       /\ provider' = r.provider
       /\ fs' = r.disk
       /\ last' = Call("set", key, value, NoSource, FALSE, r.exc, r.ret)
    /\ UNCHANGED <<config_source, edits>>

\* ConfigurationProviderFile.save_value called on its own: the file is
\* re-read, changed and written back, the tree is not touched
FileSaveValue(key, value) ==
    /\ Constructed
    /\ ops < MaxOps
    /\ ops' = ops + 1
    /\ LET r == File_save_value(fs, provider, key, value) IN
       /\ fs' = r.disk
       /\ last' = Call("save_value", key, value, NoSource, FALSE, r.exc, NoneVal)
    /\ UNCHANGED <<config_source, provider, edits>>

\* ConfigurationProviderFile.save_all
FileSaveAll ==
    /\ Constructed
    /\ LET r == File_save_all(fs, provider) IN
       /\ fs' = r.disk
       /\ last' = Call("save_all", EmptyKey, NoneVal, NoSource, FALSE, r.exc, NoneVal)
    /\ UNCHANGED <<config_source, provider, ops, edits>>

\* ConfigurationProviderFile.import_config
FileImportConfig ==
    /\ Constructed
    /\ LET r == File_import_config(fs, provider) IN
       /\ provider' = r.provider
       /\ last' = Call("import", EmptyKey, NoneVal, NoSource, FALSE, "none", r.ret)
    /\ UNCHANGED <<fs, config_source, ops, edits>>

NextFile ==
    \/ \E f \in Files : FileNew(f)
    \/ \E key \in KeyStrings, value \in SetValues : FileSetVal(key, value)
    \/ \E key \in KeyStrings, value \in SetValues : FileSaveValue(key, value)
    \/ FileSaveAll
    \/ FileImportConfig
    \/ \E f \in Files, c \in Contents : ExternalWrite(f, c)

SpecFile == Init /\ [][NextFile]_vars

(* ---------------------------- reading the claims ----------------------- *)
Tree == provider.configuration
TreeBefore == last.pre.provider.configuration
Succeeded == last.exc = "none"

\* the segments ks lead to a value of tree v
RECURSIVE Present(_, _)
Present(v, ks) ==
    \/ Len(ks) = 0
    \/ /\ IsDict(v)
       /\ Head(ks) \in DOMAIN v.val
       /\ Present(v.val[Head(ks)], Tail(ks))

\* that value
RECURSIVE ValueAt(_, _)
ValueAt(v, ks) == IF Len(ks) = 0 THEN v ELSE ValueAt(v.val[Head(ks)], Tail(ks))

\* the prefixes of ks that leave at least one segment
ProperPrefixes(ks) == {SubSeq(ks, 1, n) : n \in 0..(Len(ks) - 1)}

\* the document a backing file holds, parsed
Parsed(c) == Load(c.doc)

CurrentFile == fs[provider.config_settings.source]

(* ---------------------------- C1 --------------------------------------- *)
\* C1 (as stated): every set(p, v) that succeeds returns v, and a get(p) issued
\* immediately after it returns v, for every path p, the empty path included.
C1_RoundTrip ==
    [][ /\ (last'.op = "set" /\ last'.exc = "none") => last'.ret = last'.value
        /\ (/\ last.op = "set" /\ last.exc = "none"
            /\ last'.op = "get" /\ last'.key = last.key)
           => (last'.exc = "none" /\ last'.ret = last.value) ]_vars

(* ---------------------------- C2 --------------------------------------- *)
\* C2: after a set(p, v) that completes successfully, whatever came before, the
\* walk of p's segments reaches v in the in-memory tree and reaches the same
\* value in the parsed document of the current backend's file.
C2_SetAgreesWithDocument ==
    (last.op = "set" /\ Succeeded) =>
        /\ CurrentFile.kind = "text"
        /\ Reduce(Tree, Split(last.key)) = Ok(last.value)
        /\ Reduce(Parsed(CurrentFile), Split(last.key)) = Reduce(Tree, Split(last.key))

\* a successful set on a store whose tree and document disagree elsewhere
C2_Witness ==
    /\ last.op = "set" /\ Succeeded
    /\ last.key # EmptyKey
    /\ CurrentFile.kind = "text"
    /\ Parsed(CurrentFile) # Tree

(* ---------------------------- C3 --------------------------------------- *)
\* C3: a successful switch_provider with overwrite false leaves the in-memory
\* tree equal to the tree held just before it, whatever the new backend's
\* document holds, and the provider is the one built from the new descriptor.
C3_SwitchKeepsTree ==
    (last.op = "switch" /\ Succeeded /\ ~last.overwrite) =>
        /\ Tree = TreeBefore
        /\ provider.cls = last.desc.type
        /\ provider.config_settings = last.desc.settings

\* such a switch to a backend whose document differs from the tree kept
C3_Witness ==
    /\ last.op = "switch" /\ Succeeded /\ ~last.overwrite
    /\ provider.config_settings # last.pre.provider.config_settings
    /\ Parsed(CurrentFile) # Tree

(* ---------------------------- C4 --------------------------------------- *)
\* C4: a successful switch_provider with overwrite true makes the in-memory
\* tree equal to the document loaded from the new backend, so every get
\* answers from that document alone.
C4_SwitchAdoptsDocument ==
    (last.op = "switch" /\ Succeeded /\ last.overwrite) =>
        /\ provider.config_settings = last.desc.settings
        /\ CurrentFile.kind = "text"
        /\ Tree = Parsed(CurrentFile)
        /\ \A key \in KeyStrings :
               get_val(Tree, key) = get_val(Parsed(CurrentFile), key)

\* such a switch that replaced a different tree
C4_Witness ==
    /\ last.op = "switch" /\ Succeeded /\ last.overwrite
    /\ Tree # TreeBefore
    /\ IsDict(TreeBefore) /\ DOMAIN TreeBefore.val # {}

(* ---------------------------- C5 --------------------------------------- *)
\* C5: a switch_provider whose new provider cannot be built (its load fails)
\* raises, and the provider with its tree, and the files, are as before the
\* call, so a later get or set acts as on the state before the call.
C5_FailedSwitchKeepsStore ==
    (last.op = "switch" /\ last.exc \in {"IOError", "NotImplementedError"}) =>
        /\ provider = last.pre.provider
        /\ fs = last.pre.fs
        /\ \A key \in KeyStrings :
               /\ get_val(Tree, key) = get_val(TreeBefore, key)
               /\ \A value \in SetValues :
                      set_val(fs, provider, key, value)
                          = set_val(last.pre.fs, last.pre.provider, key, value)

\* a switch to another file that cannot be loaded
C5_Witness ==
    /\ last.op = "switch" /\ last.exc = "IOError"
    /\ last.desc.settings # last.pre.provider.config_settings

(* ---------------------------- C6 --------------------------------------- *)
\* C6: get on a non-empty path that is not present in the tree (a segment is
\* absent, or a scalar is reached while segments remain) returns None, does
\* not raise, and changes nothing.
C6_GetMissReturnsNone ==
    (/\ last.op = "get"
     /\ last.key # EmptyKey
     /\ ~Present(TreeBefore, Split(last.key))) =>
        /\ last.exc = "none"
        /\ last.ret = NoneVal
        /\ provider = last.pre.provider
        /\ fs = last.pre.fs

\* a get that reaches a scalar while segments remain
C6_Witness ==
    /\ last.op = "get"
    /\ last.key # EmptyKey
    /\ \E q \in ProperPrefixes(Split(last.key)) :
           /\ Len(q) > 0
           /\ Present(TreeBefore, q)
           /\ ~IsDict(ValueAt(TreeBefore, q))

(* ---------------------------- C7 --------------------------------------- *)
\* C7: get with the empty key returns the entire current tree and changes
\* nothing.
C7_GetEmptyReturnsTree ==
    (last.op = "get" /\ last.key = EmptyKey) =>
        /\ last.exc = "none"
        /\ last.ret = TreeBefore
        /\ provider = last.pre.provider
        /\ fs = last.pre.fs

\* get("") on a tree that has an entry under the empty segment
C7_Witness ==
    /\ last.op = "get" /\ last.key = EmptyKey
    /\ IsDict(Tree) /\ EmptyKey \in DOMAIN Tree.val
    /\ Cardinality(DOMAIN Tree.val) > 1

(* ---------------------------- C8 --------------------------------------- *)
\* C8: a set(p, v) on a tree whose root is a mapping leaves v at p; every
\* proper prefix of p is then a mapping that holds what the mapping found
\* there held before plus the next segment, and only the next segment when
\* the prefix was absent or held a scalar (the scalar is discarded).
C8_DestructiveCoercion ==
    (last.op = "set" /\ IsDict(TreeBefore)) =>
        LET ks == Split(last.key) IN
        /\ Present(Tree, ks)
        /\ ValueAt(Tree, ks) = last.value
        /\ \A q \in ProperPrefixes(ks) :
               LET seg == ks[Len(q) + 1]
                   kept == Present(TreeBefore, q) /\ IsDict(ValueAt(TreeBefore, q))
                   old == IF kept THEN ValueAt(TreeBefore, q).val ELSE EmptyDict.val
                   new == ValueAt(Tree, q)
               IN  /\ IsDict(new)
                   /\ DOMAIN new.val = (DOMAIN old) \cup {seg}
                   /\ \A k \in (DOMAIN old) \ {seg} : new.val[k] = old[k]

\* a set whose walk met a scalar at an intermediate segment
C8_Witness ==
    /\ last.op = "set" /\ IsDict(TreeBefore)
    /\ \E q \in ProperPrefixes(Split(last.key)) :
           /\ Len(q) > 0
           /\ Present(TreeBefore, q)
           /\ ValueAt(TreeBefore, q).kind = "str"

(* ---------------------------- C9 --------------------------------------- *)
\* C9 (as stated): set with the empty key raises and changes neither the
\* in-memory tree nor any file.
C9_EmptyPathRejected ==
    (last.op = "set" /\ last.key = EmptyKey) =>
        /\ last.exc # "none"
        /\ provider = last.pre.provider
        /\ fs = last.pre.fs

(* ---------------------------- C10 -------------------------------------- *)
\* the save_value step of the last set_val raised
PersistenceFailed ==
    /\ last.op = "set"
    /\ IsDict(TreeBefore)
    /\ File_save_value(last.pre.fs, provider, last.key, last.value).exc # "none"

\* C10 (as stated): when save_value fails during set(p, v) the call raises, a
\* following get(p) returns v, and the files are as before the call.
C10_PersistFailureKeepsDocument ==
    PersistenceFailed =>
        /\ last.exc # "none"
        /\ get_val(Tree, last.key) = Ok(last.value)
        /\ fs = last.pre.fs

(* ---------------------------- C11 -------------------------------------- *)
\* C11: a successful save_all leaves the file holding a document that parses
\* to the in-memory tree T, whatever the file held before, and an
\* import_config issued right after it succeeds and leaves the tree equal to T.
C11_SaveAllThenLoad ==
    (last.op = "save_all" /\ Succeeded) =>
        LET r == File_import_config(fs, provider) IN
        /\ Tree = TreeBefore
        /\ CurrentFile.kind = "text"
        /\ Parsed(CurrentFile) = TreeBefore
        /\ r.ret = NoneVal
        /\ r.provider.configuration = TreeBefore

\* a save_all of a nested tree over a file that held another document
C11_Witness ==
    /\ last.op = "save_all" /\ Succeeded
    /\ last.pre.fs[provider.config_settings.source].kind = "text"
    /\ Parsed(last.pre.fs[provider.config_settings.source]) # Tree
    /\ IsDict(Tree)
    /\ \E k \in DOMAIN Tree.val : IsDict(Tree.val[k])
    /\ \E k \in DOMAIN Parsed(last.pre.fs[provider.config_settings.source]).val :
           k \notin DOMAIN Tree.val

(* ---------------------------- C12 -------------------------------------- *)
\* the file a File descriptor names cannot be opened or holds no JSON document
Unloadable(desc, disk) ==
    /\ "type" \in DOMAIN desc /\ desc.type = "File"
    /\ "source" \in DOMAIN desc.settings
    /\ disk[desc.settings.source].kind # "text"

\* C12: Configuration(descriptor) on a file that is missing or malformed
\* raises IOError, writes no file and leaves no object; whenever an object
\* exists its tree has been loaded, so no call meets an unset tree.
C12_FailedConstructLeavesNothing ==
    /\ (last.op = "construct" /\ Unloadable(last.desc, last.pre.fs)) =>
           /\ last.exc = "IOError"
           /\ fs = last.pre.fs
           /\ ~Constructed
    /\ Constructed => provider.configuration # Unset

\* a construction against a malformed file, the other file being loadable
C12_Witness ==
    /\ last.op = "construct"
    /\ Unloadable(last.desc, last.pre.fs)
    /\ fs[last.desc.settings.source] = Garbage
    /\ last.exc = "IOError"

(* ---------------------------- C13 -------------------------------------- *)
NonEmptyKeys == KeyStrings \ {EmptyKey}

\* the key leads to a stored None
HoldsNone(tree, key) ==
    Present(tree, Split(key)) /\ ValueAt(tree, Split(key)) = NoneVal

\* C13 (as stated): the result of a get on an absent path differs from the
\* result of get on every path that is present and holds None.
C13_MissDiffersFromNull ==
    (/\ last.op = "get"
     /\ last.key # EmptyKey
     /\ ~Present(TreeBefore, Split(last.key))) =>
        \A q \in NonEmptyKeys :
            HoldsNone(Tree, q) => get_val(Tree, q) # [exc |-> last.exc, val |-> last.ret]

\* C13 (amended): the result of a get on an absent path is None, the result
\* of get on every path that is present and holds None, and differs from the
\* result of get on every present path that holds another value.
C13_MissEqualsNull ==
    (/\ last.op = "get"
     /\ last.key # EmptyKey
     /\ ~Present(TreeBefore, Split(last.key))) =>
        /\ last.exc = "none"
        /\ \A q \in NonEmptyKeys :
               Present(Tree, Split(q)) =>
                   ((get_val(Tree, q) = Ok(last.ret)) <=> HoldsNone(Tree, q))

\* a get that misses in a tree that stores None under another path
C13_Witness ==
    /\ last.op = "get"
    /\ last.key # EmptyKey
    /\ ~Present(TreeBefore, Split(last.key))
    /\ \E q \in NonEmptyKeys : HoldsNone(Tree, q)

(* ---------------------------- C14 -------------------------------------- *)
\* a descriptor with no type, with a type that names no backend, or with
\* empty settings
InvalidDescriptor(desc) ==
    \/ "type" \notin DOMAIN desc
    \/ desc.type \notin {"File", "Consul"}
    \/ DOMAIN desc.settings = {}

\* C14 (as stated): Configuration(descriptor) with an invalid descriptor
\* raises and leaves no object, and no provider's __init__ (hence no load)
\* has been entered.
C14_InvalidDescriptorRejectedFirst ==
    (last.op = "construct" /\ InvalidDescriptor(last.desc)) =>
        /\ last.exc # "none"
        /\ ~Constructed
        /\ last.adapters = 0

(* ---------------------------- C15 -------------------------------------- *)
\* C15 (as stated): a switch_provider that raises leaves the whole facade as
\* it was: the provider with its tree, the recorded config_source, and the
\* files.
C15_FailedSwitchKeepsDescriptor ==
    (last.op = "switch" /\ last.exc # "none") =>
        /\ provider = last.pre.provider
        /\ config_source = last.pre.config_source
        /\ fs = last.pre.fs

(* ---------------------------- C16 -------------------------------------- *)
\* C16 (as stated): whenever a Configuration object exists, its in-memory
\* tree is a mapping at the root.
C16_RootIsMapping == Constructed => IsDict(Tree)

(* ---------------------------- C17 -------------------------------------- *)
\* C17 (as stated): Configuration.save on a File-backed store returns without
\* raising, and afterwards the file holds a document that parses to the
\* entire in-memory tree.
C17_SaveWritesTree ==
    last.op = "save" =>
        /\ Succeeded
        /\ CurrentFile.kind = "text"
        /\ Parsed(CurrentFile) = Tree

(* ---------------------------- C18 -------------------------------------- *)
\* the file of the current provider holds a document that parses to the tree
InStep ==
    /\ Constructed
    /\ CurrentFile.kind = "text"
    /\ Parsed(CurrentFile) = Tree

\* C18: a successful construction leaves file and tree in step, and a
\* successful set on a store that is in step leaves it in step; hence after
\* any run of successful sets from construction, with no switch, failed save
\* or outside edit in between, the whole document equals the whole tree.
C18_FullLockstep ==
    [][ /\ (last'.op = "construct" /\ Constructed') => InStep'
        /\ (InStep /\ last'.op = "set" /\ last'.exc = "none") => InStep' ]_vars

\* a second successful set in step, on a tree with an entry the set left alone
C18_Witness ==
    /\ last.op = "set" /\ Succeeded
    /\ ops = 2
    /\ edits = 0
    /\ InStep
    /\ Parsed(last.pre.fs[provider.config_settings.source]) = TreeBefore
    /\ \E k \in DOMAIN Tree.val : k # Head(Split(last.key))

(* ---------------------------- C19 -------------------------------------- *)
IsPrefix(s, t) == Len(s) <= Len(t) /\ SubSeq(t, 1, Len(s)) = s

\* neither path is a prefix of the other
Unrelated(q, ks) == ~IsPrefix(q, ks) /\ ~IsPrefix(ks, q)

\* what is found at the segments ks of v: the value, or that nothing is there
Found(v, ks) == IF Present(v, ks) THEN Ok(ValueAt(v, ks)) ELSE Raise("KeyError")

FileBefore == last.pre.fs[provider.config_settings.source]

\* C19: a successful set(p, v) leaves in the file the document found there at
\* the time of the call with p set to v by the rule of set: v is at p, every
\* value the file held at a path unrelated to p is kept, and nothing appears
\* at such a path; the in-memory tree is the tree before with p set to v and
\* takes nothing from the file; the other file is untouched.
C19_SetKeepsOutsideEdits ==
    (last.op = "set" /\ Succeeded) =>
        LET ks == Split(last.key)
            old == Parsed(FileBefore)
            new == Parsed(CurrentFile)
        IN  /\ new = search_and_replace(old, last.key, last.value).val
            /\ Found(new, ks) = Ok(last.value)
            /\ Found(Tree, ks) = Ok(last.value)
            /\ \A key \in KeyStrings :
                   Unrelated(Split(key), ks) =>
                       /\ Found(new, Split(key)) = Found(old, Split(key))
                       /\ Found(Tree, Split(key)) = Found(TreeBefore, Split(key))
            /\ \A f \in Files \ {provider.config_settings.source} :
                   fs[f] = last.pre.fs[f]

\* the only call after an outside edit is a set: the document keeps a value
\* of the edit that the tree never had
C19_Witness ==
    /\ last.op = "set" /\ Succeeded
    /\ ops = 1 /\ edits = 1
    /\ Parsed(FileBefore) # TreeBefore
    /\ \E key \in KeyStrings :
           /\ Unrelated(Split(key), Split(last.key))
           /\ Present(Parsed(CurrentFile), Split(key))
           /\ ~Present(Tree, Split(key))

(* ---------------------------- C20 -------------------------------------- *)
\* C20: a switch, successful or not, leaves every backing file as it was; a
\* successful switch binds the store to the backend its descriptor names;
\* and a set, successful or not, leaves every file other than that of the
\* bound backend as it was, so the backend switched away from is not
\* written again.
C20_SwitchWritesNothing ==
    /\ last.op = "switch" => fs = last.pre.fs
    /\ (last.op = "switch" /\ Succeeded) =>
           /\ provider.config_settings = last.desc.settings
           /\ provider.config_settings # last.pre.provider.config_settings
                  => fs[last.pre.provider.config_settings.source]
                         = last.pre.fs[last.pre.provider.config_settings.source]
    /\ last.op = "set" =>
           \A f \in Files \ {provider.config_settings.source} :
               fs[f] = last.pre.fs[f]

\* a store built on f1 was switched to f2 keeping its tree, and a set then
\* succeeded: f2 holds its own document with the new value, f1 is as it was
C20_Witness ==
    /\ last.op = "set" /\ Succeeded
    /\ ops = 2 /\ edits = 0
    /\ provider.config_settings.source = "f2"
    /\ config_source = [type |-> "File", settings |-> FileSettings("f2")]
    /\ fs["f1"].kind = "text"
    /\ TreeBefore = Parsed(fs["f1"])
    /\ Parsed(FileBefore) # TreeBefore
    /\ CurrentFile # FileBefore
    /\ fs["f1"] = last.pre.fs["f1"]

====
